---------------------------- MODULE Spec2Model ----------------------------
(***************************************************************************)
(* Vendor-date resolution and caching of us_symbols.                       *)
(*                                                                         *)
(*   src/us_symbols/vendor_yahoo.py  earliest_vendor_dates                 *)
(*                                   earliest_vendor_dates_with_cache      *)
(*   src/us_symbols/cli.py           main                                  *)
(*   src/us_symbols/utils.py         throttle                              *)
(*                                                                         *)
(* Tickers are the numbers 1..NumTickers, numbered in the lexicographic    *)
(* order of their (stripped, upper-cased) spelling, so that sorting rows   *)
(* by Symbol is sorting by number.  Dates are the numbers 1..NumDates in   *)
(* calendar order; a vendor timestamp is identified with its .date().      *)
(* Every call modelled here is given a cache path.                         *)
(***************************************************************************)
EXTENDS Integers, Sequences, FiniteSets, TLC

\* ------------------------------------------------------------- bounds
NumTickers == 2
NumDates == 2
MaxRetriesArg == 3
MaxBatchSize == 2

Tickers == 1..NumTickers
Dates == 1..NumDates
\* A missing value (pandas NaN / NaT / None): no date known.
NoDate == 0
\* A response frame without a "Close" column for the symbol (KeyError).
NoColumn == -1
\* In a cache file: a date cell that pd.to_datetime cannot parse.
BadDate == -2

\* Call arguments.  pause is a number of seconds (0: throttle does not sleep).
BatchSizes == 1..MaxBatchSize
RetryArgs == 0..MaxRetriesArg
Pauses == {0, 1, 3}
\* The cache claims do not depend on how long or how often a request is
\* retried: calls through the cache pass one of these.
CachePauses == {1}
CacheRetryArgs == {0}

Min(a, b) == IF a <= b THEN a ELSE b

\* ------------------------------------------------------------- maps and rows
\* A Python dict symbol -> date is a function on a subset of Tickers.
EmptyMap == [s \in {} |-> NoDate]

Maps == UNION {[S -> Dates] : S \in SUBSET Tickers}

Range(seq) == {seq[k] : k \in DOMAIN seq}

\* All sequences over S of length at most n (call arguments).
SeqsUpTo(S, n) == UNION {[1..k -> S] : k \in 0..n}

\* The sequences over S that name no element twice.
DistinctSeqs(S) ==
    {xs \in SeqsUpTo(S, Cardinality(S)) :
        \A j, k \in DOMAIN xs : xs[j] = xs[k] => j = k}

\* list(dict.fromkeys(xs)): drop repeats, keep the first occurrence's place.
RECURSIVE Dedup(_)
Dedup(xs) ==
    IF xs = <<>> THEN <<>>
    ELSE LET front == SubSeq(xs, 1, Len(xs) - 1)
             last == xs[Len(xs)]
         IN  IF last \in Range(front) THEN Dedup(front)
             ELSE Append(Dedup(front), last)


\* ------------------------------------------------------------- state
VARIABLES
    vfile,      \* the vendor cache file (cache_path)
    ufile,      \* the universe cache file
    cli,        \* frame of main: its arguments and position
    vprev,      \* history: the vendor cache file when the previous run of main ended
    vbefore,    \* history: the vendor cache file when earliest_vendor_dates_with_cache was entered
    wc,         \* frame of earliest_vendor_dates_with_cache
    evd,        \* frame of earliest_vendor_dates: arguments, locals, position
    loop,       \* history: the requests and backoff waits of the current retry loop
    asked,      \* history: the tickers a vendor request was issued for in this call
    hist,       \* history: what the requests of this resolver call did, per ticker
    report,     \* the mismatch report file of the validation step (validate_cache_output)
    mfile,      \* the missing report (earliest_vendor_dates_missing.csv)
    fn,         \* frame of a pure function applied on its own: arguments and result
    procs       \* two process instances of earliest_vendor_dates_with_cache

vars ==
    <<vfile, ufile, cli, vprev, vbefore, wc, evd, loop, asked, hist, report,
      mfile, fn, procs>>

\* What a pure function applied on its own and a second process instance hold.
auxvars == <<fn, procs>>

\* What only main touches.
mainvars == <<ufile, cli, vprev, report, mfile, auxvars>>

\* A file: absent, or present with its data rows in order (the header line
\* is always there).
NoFile == [exists |-> FALSE, rows |-> <<>>]
File(rows) == [exists |-> TRUE, rows |-> rows]

\* No pure function is being applied; no second process instance runs.
NoCall == [op |-> "none"]
NoProcs == <<>>

\* ------------------------------------------------------------- throttle
\* utils.throttle: sleeps only for a positive number of seconds; the value is
\* the time spent.
Throttle(seconds) == IF seconds > 0 THEN seconds ELSE 0

\* Variant: the wait grows linearly with the attempt.
BackoffWaitLinear(pause, attempt) == pause * (attempt + 1)

\* wait = pause * (2 ** attempt)
BackoffWait(pause, attempt) == pause * (2 ^ attempt)

\* ------------------------------------------------------------- earliest_vendor_dates
\* No call in progress and none made yet.
IdleFrame ==
    [pc |-> "idle", tickers |-> <<>>, batch_size |-> 1, pause |-> 0,
     max_retries |-> 0, results |-> EmptyMap, i |-> 1, attempt |-> 0,
     missing |-> <<>>, attempt_i |-> 0]

\* batch = tickers[i : i + batch_size]   (i counts from 1 here)
Batch(f) == SubSeq(f.tickers, f.i, Min(f.i + f.batch_size - 1, Len(f.tickers)))

\* return out: the locals die, the arguments and the result stay readable.
Return(f) ==
    [f EXCEPT !.pc = "returned", !.i = 1, !.attempt = 0, !.missing = <<>>,
              !.attempt_i = 0]

\* An exception leaves the function: no result.
Raise(f) ==
    [f EXCEPT !.pc = "raised", !.results = EmptyMap, !.i = 1, !.attempt = 0,
              !.missing = <<>>, !.attempt_i = 0]

\* Entry: normalise and deduplicate, then the first batch (or no batch at all).
EvdStart(tickers, batch_size, pause, max_retries) ==
    LET ts == Dedup(tickers)
        f == [IdleFrame EXCEPT !.tickers = ts, !.batch_size = batch_size,
                               !.pause = pause, !.max_retries = max_retries]
    IN  IF ts = <<>> THEN Return(f) ELSE [f EXCEPT !.pc = "batch"]

\* Variant: the for loop advances by one ticker instead of by batch_size.
EndBatchOverlapping(f) ==
    LET j == f.i + 1
    IN  IF j > Len(f.tickers) THEN Return(f)
        ELSE [f EXCEPT !.pc = "batch", !.i = j, !.attempt = 0, !.missing = <<>>,
                       !.attempt_i = 0]

\* pbar.update; throttle(pause); the next batch of the for loop, or the return.
EndBatch(f) ==
    LET j == f.i + f.batch_size
    IN  IF j > Len(f.tickers) THEN Return(f)
        ELSE [f EXCEPT !.pc = "batch", !.i = j, !.attempt = 0, !.missing = <<>>,
                       !.attempt_i = 0]

\* missing = [t for t in batch if t not in results]; for t in missing: ...
\* (attempt is dead once the batch loop is left.)
EnterFallback(f) ==
    LET miss == SelectSeq(Batch(f), LAMBDA t : t \notin DOMAIN f.results)
    IN  IF miss = <<>> THEN EndBatch(f)
        ELSE [f EXCEPT !.pc = "single", !.missing = miss, !.attempt = 0,
                       !.attempt_i = 0]

\* The single-symbol while loop is left: throttle(0.1), then the next missing
\* symbol or the end of the batch.
AfterSymbol(f) ==
    LET rest == Tail(f.missing)
    IN  IF rest = <<>> THEN EndBatch(f)
        ELSE [f EXCEPT !.missing = rest, !.attempt_i = 0]

\* Variant: the while condition reads attempt < max_retries.
OnBatchRateLimitedStrict(f) ==
    LET a == f.attempt + 1
    IN  IF a < f.max_retries THEN [f EXCEPT !.attempt = a]
        ELSE EnterFallback([f EXCEPT !.attempt = a])

\* Variant: when the budget is used up the count starts again at 0.
OnBatchRateLimitedRestarting(f) ==
    LET a == f.attempt + 1
    IN  IF a <= f.max_retries THEN [f EXCEPT !.attempt = a]
        ELSE [f EXCEPT !.attempt = 0]

\* The batch request raised a rate-limit error: throttle(wait); attempt += 1;
\* continue, and the while condition attempt <= max_retries decides.
OnBatchRateLimited(f) ==
    LET a == f.attempt + 1
    IN  IF a <= f.max_retries THEN [f EXCEPT !.attempt = a]
        ELSE EnterFallback([f EXCEPT !.attempt = a])

\* Variant: any error of the batch request is retried like a rate limit.
OnBatchErrorRetried(f) == OnBatchRateLimited(f)

\* The batch request raised any other error: df = None; break.
OnBatchError(f) == EnterFallback(f)

\* Variant: a symbol whose closes are all missing gets an entry without a date.
ReadBatchKeepMissing(f, resp) ==
    LET got == {t \in Range(Batch(f)) : resp[t] \in Dates \cup {NoDate}}
    IN  [t \in DOMAIN f.results \cup got |->
            IF t \in got THEN resp[t] ELSE f.results[t]]

\* results after reading the batch frame: per symbol the first non-missing
\* close, nothing for a symbol whose closes are all missing (NoDate) or whose
\* column is absent (NoColumn, the KeyError caught in the loop).
ReadBatch(f, resp) ==
    LET got == {t \in Range(Batch(f)) : resp[t] \in Dates}
    IN  [t \in DOMAIN f.results \cup got |->
            IF t \in got THEN resp[t] ELSE f.results[t]]

\* The batch request returned a frame.  multi: its columns are a MultiIndex.
\* A flat frame is read only for a batch of one symbol, outside any try: a
\* missing "Close" column raises.  A flat frame for several symbols is not read.
OnBatchFrame(f, multi, resp) ==
    IF multi THEN EnterFallback([f EXCEPT !.results = ReadBatch(f, resp)])
    ELSE IF Len(Batch(f)) = 1
         THEN IF resp[Batch(f)[1]] = NoColumn THEN Raise(f)
              ELSE EnterFallback([f EXCEPT !.results = ReadBatch(f, resp)])
         ELSE EnterFallback(f)

\* The single-symbol request raised a rate-limit error.
OnSingleRateLimited(f) ==
    LET a == f.attempt_i + 1
    IN  IF a <= f.max_retries THEN [f EXCEPT !.attempt_i = a]
        ELSE AfterSymbol([f EXCEPT !.attempt_i = a])

\* Variant: any error of the single-symbol request is retried like a rate limit.
OnSingleErrorRetried(f) == OnSingleRateLimited(f)

\* The single-symbol request raised any other error (a missing "Close" column
\* included): break.
OnSingleError(f) == AfterSymbol(f)

\* The single-symbol request returned a frame whose first non-missing close
\* is at d (NoDate: none): results[t] = d; break  /  break.
OnSingleFrame(f, d) ==
    LET t == Head(f.missing)
    IN  IF d \in Dates
        THEN AfterSymbol([f EXCEPT !.results =
                 [s \in DOMAIN f.results \cup {t} |->
                     IF s = t THEN d ELSE f.results[s]]])
        ELSE AfterSymbol(f)

\* ------------------------------------------------------------- history
NoLoop == [kind |-> "none", reqs |-> 0, waits |-> <<>>, last |-> "none"]

\* One more request of the retry loop `kind`, answered by `outcome`; a
\* rate-limit answer is followed by its backoff wait.  A loop's first request
\* (attempt 0) starts a fresh record.
NoteRequest(kind, attempt, pause, outcome) ==
    LET base == IF attempt = 0 THEN [NoLoop EXCEPT !.kind = kind] ELSE loop
    IN  [base EXCEPT !.reqs = @ + 1,
                     !.last = outcome,
                     !.waits = IF outcome = "rate_limited"
                               THEN Append(@, Throttle(BackoffWait(pause, attempt)))
                               ELSE @]

\* What the requests of the current resolver call did:
\*   singled   tickers of the current batch given a single-symbol request
\*   skipped   tickers whose batch ended (or was left by an exception) without
\*             a date from a batch frame and without a single-symbol request
\*   closed    tickers whose single-symbol loop ended without a date: on an
\*             error other than a rate limit, on a frame without a usable
\*             close, or on the rate limit of its last attempt
\*   reasked   tickers requested again after they were closed
\*   gave      tickers for which a frame that was read held a non-missing close
\*   finished  tickers of the batches whose iteration of the for loop has ended
\*   reopened  tickers requested after their batch had finished
\*   pauses    the throttle(pause) calls that ended a batch, in order
NoHist ==
    [singled |-> {}, skipped |-> {}, closed |-> {}, reasked |-> {}, gave |-> {},
     finished |-> {}, reopened |-> {}, pauses |-> <<>>]

\* One request for the tickers syms, answered by outcome, the frame (if any)
\* giving a first close for the tickers of given; f2 is the frame after it.
NoteStep(kind, syms, outcome, given, f2) ==
    LET batch_ended == \/ f2.pc = "returned"
                       \/ f2.pc # "raised" /\ f2.i # evd.i
        batch_left == batch_ended \/ f2.pc = "raised"
        gave_up == /\ kind = "single"
                   /\ \/ outcome = "error"
                      \/ outcome = "frame" /\ given = {}
                      \/ outcome = "rate_limited" /\ evd.attempt_i >= evd.max_retries
        singled == IF kind = "single" THEN hist.singled \cup syms ELSE hist.singled
    IN  [singled  |-> IF batch_left THEN {} ELSE singled,
         skipped  |-> IF batch_left
                      THEN hist.skipped \cup
                              (Range(Batch(evd)) \ (hist.gave \cup given \cup singled))
                      ELSE hist.skipped,
         closed   |-> IF gave_up THEN hist.closed \cup syms ELSE hist.closed,
         reasked  |-> hist.reasked \cup (syms \cap hist.closed),
         gave     |-> hist.gave \cup given,
         finished |-> IF batch_ended THEN hist.finished \cup Range(Batch(evd))
                      ELSE hist.finished,
         reopened |-> hist.reopened \cup (syms \cap hist.finished),
         pauses   |-> IF batch_ended THEN Append(hist.pauses, Throttle(evd.pause))
                      ELSE hist.pauses]

\* ------------------------------------------------------------- resolver steps
BatchRateLimited ==
    /\ evd.pc = "batch"
    /\ evd' = OnBatchRateLimited(evd)
    /\ loop' = NoteRequest("batch", evd.attempt, evd.pause, "rate_limited")
    /\ asked' = asked \cup Range(Batch(evd))
    /\ hist' = NoteStep("batch", Range(Batch(evd)), "rate_limited", {}, evd')
    /\ UNCHANGED <<vfile, vbefore, wc, mainvars>>

BatchError ==
    /\ evd.pc = "batch"
    /\ evd' = OnBatchError(evd)
    /\ loop' = NoteRequest("batch", evd.attempt, evd.pause, "error")
    /\ asked' = asked \cup Range(Batch(evd))
    /\ hist' = NoteStep("batch", Range(Batch(evd)), "error", {}, evd')
    /\ UNCHANGED <<vfile, vbefore, wc, mainvars>>

BatchFrame ==
    /\ evd.pc = "batch"
    /\ \E multi \in BOOLEAN :
       \E resp \in [Range(Batch(evd)) -> Dates \cup {NoDate, NoColumn}] :
          /\ evd' = OnBatchFrame(evd, multi, resp)
          /\ hist' = NoteStep("batch", Range(Batch(evd)), "frame",
                              IF multi \/ Len(Batch(evd)) = 1
                              THEN {t \in Range(Batch(evd)) : resp[t] \in Dates}
                              ELSE {},
                              evd')
    /\ loop' = NoteRequest("batch", evd.attempt, evd.pause, "frame")
    /\ asked' = asked \cup Range(Batch(evd))
    /\ UNCHANGED <<vfile, vbefore, wc, mainvars>>

SingleRateLimited ==
    /\ evd.pc = "single"
    /\ evd' = OnSingleRateLimited(evd)
    /\ loop' = NoteRequest("single", evd.attempt_i, evd.pause, "rate_limited")
    /\ asked' = asked \cup {Head(evd.missing)}
    /\ hist' = NoteStep("single", {Head(evd.missing)}, "rate_limited", {}, evd')
    /\ UNCHANGED <<vfile, vbefore, wc, mainvars>>

SingleError ==
    /\ evd.pc = "single"
    /\ evd' = OnSingleError(evd)
    /\ loop' = NoteRequest("single", evd.attempt_i, evd.pause, "error")
    /\ asked' = asked \cup {Head(evd.missing)}
    /\ hist' = NoteStep("single", {Head(evd.missing)}, "error", {}, evd')
    /\ UNCHANGED <<vfile, vbefore, wc, mainvars>>

SingleFrame ==
    /\ evd.pc = "single"
    /\ \E d \in Dates \cup {NoDate} :
          /\ evd' = OnSingleFrame(evd, d)
          /\ hist' = NoteStep("single", {Head(evd.missing)}, "frame",
                              IF d \in Dates THEN {Head(evd.missing)} ELSE {},
                              evd')
    /\ loop' = NoteRequest("single", evd.attempt_i, evd.pause, "frame")
    /\ asked' = asked \cup {Head(evd.missing)}
    /\ UNCHANGED <<vfile, vbefore, wc, mainvars>>

ResolverStep ==
    \/ BatchRateLimited
    \/ BatchError
    \/ BatchFrame
    \/ SingleRateLimited
    \/ SingleError
    \/ SingleFrame

\* A caller outside this program calls earliest_vendor_dates.
CallResolver ==
    /\ cli.pc = "idle"
    /\ wc.pc = "idle"
    /\ evd.pc = "idle"
    /\ \E ts \in SeqsUpTo(Tickers, NumTickers), b \in BatchSizes,
          p \in Pauses, r \in RetryArgs :
          evd' = EvdStart(ts, b, p, r)
    /\ loop' = NoLoop
    /\ asked' = {}
    /\ hist' = NoHist
    /\ UNCHANGED <<vfile, vbefore, wc, mainvars>>


\* ------------------------------------------------------------- earliest_vendor_dates_with_cache
Row(s, d) == [Symbol |-> s, EarliestVendorDate |-> d]

\* The rows of a table in a dict: for _, row in iterrows(): m[row.Symbol] = date,
\* a later row replacing an earlier one; a row without a date (or, where the
\* dates are read with errors="coerce", with an unparsable one) is skipped.
RECURSIVE RowsToMap(_)
RowsToMap(rows) ==
    IF rows = <<>> THEN EmptyMap
    ELSE LET m == RowsToMap(SubSeq(rows, 1, Len(rows) - 1))
             r == rows[Len(rows)]
         IN  IF r.EarliestVendorDate \notin Dates THEN m
             ELSE [s \in DOMAIN m \cup {r.Symbol} |->
                      IF s = r.Symbol THEN r.EarliestVendorDate ELSE m[s]]

\* The rows the loop of lines 143-147 gets through: pd.to_datetime raises on
\* the first unparsable date, and the except clause ends the loop there.
RowsBeforeFailure(rows) ==
    LET bad == {k \in DOMAIN rows : rows[k].EarliestVendorDate = BadDate}
    IN  IF bad = {} THEN rows
        ELSE SubSeq(rows, 1, (CHOOSE k \in bad : \A j \in bad : k <= j) - 1)

\* Variant: the file is read under force_recheck too.
LoadCachedIgnoringForce(file, force_recheck) ==
    IF file.exists THEN RowsToMap(RowsBeforeFailure(file.rows)) ELSE EmptyMap

\* cached: the file is read only if it exists and force_recheck is off.  The
\* except clause sets cache_df = None and leaves cached as it is by then.
LoadCached(file, force_recheck) ==
    IF file.exists /\ ~force_recheck THEN RowsToMap(RowsBeforeFailure(file.rows))
    ELSE EmptyMap

\* Variant: every ticker is fetched, cached or not.
ToFetchAll(tickers, force_recheck, cached) == tickers

\* Variant: the flag is read the wrong way round.
ToFetchUnlessForced(tickers, force_recheck, cached) ==
    SelectSeq(tickers, LAMBDA t : ~force_recheck /\ t \notin DOMAIN cached)

\* to_fetch = [t for t in tickers if force_recheck or t not in cached]
ToFetch(tickers, force_recheck, cached) ==
    SelectSeq(tickers, LAMBDA t : force_recheck \/ t \notin DOMAIN cached)

\* Variant: the fetched rows are not written into the map.
MergedMapCachedOnly(cached, fetched) == cached

\* Variant: the map starts empty instead of from the cached dates.
MergedMapFetchedOnly(cached, fetched) == fetched

\* merged_map: the cached dates, then the fetched rows written over them.
MergedMap(cached, fetched) ==
    [s \in DOMAIN cached \cup DOMAIN fetched |->
        IF s \in DOMAIN fetched THEN fetched[s] ELSE cached[s]]

\* sorted(rows): ascending by Symbol (one row per key of the dict).
SortedRows(m) ==
    [k \in 1..Cardinality(DOMAIN m) |->
        LET s == CHOOSE s \in DOMAIN m :
                     Cardinality({t \in DOMAIN m : t < s}) = k - 1
        IN  Row(s, m[s])]

\* result_df: the sorted rows, those without a date dropped.
ResultDf(merged) ==
    SelectSeq(SortedRows(merged), LAMBDA r : r.EarliestVendorDate # NoDate)

\* result_df[result_df["Symbol"].isin(tickers)]
RequestedRows(result_df, tickers) ==
    SelectSeq(result_df, LAMBDA r : r.Symbol \in Range(tickers))

IdleCache ==
    [pc |-> "idle", tickers |-> <<>>, force_recheck |-> FALSE,
     cached |-> EmptyMap, to_fetch |-> <<>>, ret |-> <<>>]

\* Lines 137-158: load the cache, choose what to fetch, call the resolver
\* unless there is nothing to fetch.
CacheEnter(tickers, force_recheck, batch_size, pause, max_retries) ==
    LET cached == LoadCached(vfile, force_recheck)
        to_fetch == ToFetch(tickers, force_recheck, cached)
    IN  /\ wc' = [pc |-> "fetch", tickers |-> tickers,
                  force_recheck |-> force_recheck, cached |-> cached,
                  to_fetch |-> to_fetch, ret |-> <<>>]
        /\ evd' = IF to_fetch = <<>> THEN IdleFrame
                  ELSE EvdStart(to_fetch, batch_size, pause, max_retries)
        /\ loop' = NoLoop
        /\ asked' = {}
        /\ hist' = NoHist
        /\ vbefore' = vfile

\* fetched_df: the resolver's result, or an empty table when it was not called.
FetchedDf == IF wc.to_fetch = <<>> THEN EmptyMap ELSE evd.results

\* Lines 160-178: merge, rewrite the whole cache file, return the requested rows.
CacheMerge ==
    /\ wc.pc = "fetch"
    /\ wc.to_fetch = <<>> \/ evd.pc = "returned"
    /\ LET result_df == ResultDf(MergedMap(wc.cached, FetchedDf))
       IN  /\ vfile' = File(result_df)
           /\ wc' = [wc EXCEPT !.pc = "done",
                               !.ret = RequestedRows(result_df, wc.tickers)]
    /\ UNCHANGED <<vbefore, evd, loop, asked, hist, mainvars>>

\* The resolver raised: the exception passes through, nothing is written.
CacheRaise ==
    /\ wc.pc = "fetch"
    /\ evd.pc = "raised"
    /\ wc' = [wc EXCEPT !.pc = "raised"]
    /\ UNCHANGED <<vfile, vbefore, evd, loop, asked, hist, mainvars>>

\* A caller outside this program calls earliest_vendor_dates_with_cache.
CallWithCache ==
    /\ cli.pc = "idle"
    /\ wc.pc = "idle"
    /\ evd.pc = "idle"
    /\ \E ts \in DistinctSeqs(Tickers), force \in BOOLEAN,
          b \in BatchSizes, p \in CachePauses, r \in CacheRetryArgs :
          CacheEnter(ts, force, b, p, r)
    /\ UNCHANGED <<vfile, mainvars>>

\* Something outside the program damages the cache file between two calls:
\* one date cell becomes unparsable.
CorruptCache ==
    /\ cli.pc = "idle"
    /\ wc.pc = "idle"
    /\ evd.pc = "idle"
    /\ vfile.exists
    /\ \A k \in DOMAIN vfile.rows : vfile.rows[k].EarliestVendorDate # BadDate
    /\ \E k \in DOMAIN vfile.rows :
          vfile' = File([vfile.rows EXCEPT ![k].EarliestVendorDate = BadDate])
    /\ UNCHANGED <<vbefore, wc, evd, loop, asked, hist, mainvars>>

\* The outside caller has the result (or the exception): the frame is gone.
ResolverReturn ==
    /\ cli.pc = "idle"
    /\ wc.pc = "idle"
    /\ evd.pc \in {"returned", "raised"}
    /\ evd' = IdleFrame
    /\ loop' = NoLoop
    /\ asked' = {}
    /\ hist' = NoHist
    /\ UNCHANGED <<vfile, vbefore, wc, mainvars>>

\* The outside caller has the returned rows (or the exception): the frames
\* are gone, the cache file stays.
CacheReturn ==
    /\ cli.pc = "idle"
    /\ wc.pc \in {"done", "raised"}
    /\ wc' = IdleCache
    /\ evd' = IdleFrame
    /\ loop' = NoLoop
    /\ asked' = {}
    /\ hist' = NoHist
    /\ vbefore' = NoFile
    /\ UNCHANGED <<vfile, mainvars>>


\* ------------------------------------------------------------- main
\* Of the universe cache's columns only Symbol and EarliestVendorDate are
\* kept; of main's outputs only the two cache files.

\* Variant: the date of a symbol's first dated row instead of its minimum.
MinDatesFirst(rows) ==
    LET dated == {k \in DOMAIN rows : rows[k].EarliestVendorDate \in Dates}
        syms == {rows[k].Symbol : k \in dated}
    IN  [s \in syms |->
            rows[CHOOSE k \in dated :
                    /\ rows[k].Symbol = s
                    /\ \A j \in dated : rows[j].Symbol = s => k <= j].EarliestVendorDate]

\* groupby("Symbol")[date].min() over the rows that have a date.
MinDates(rows) ==
    LET dated == {k \in DOMAIN rows : rows[k].EarliestVendorDate \in Dates}
        syms == {rows[k].Symbol : k \in dated}
    IN  [s \in syms |->
            CHOOSE d \in Dates :
                /\ \E k \in dated : rows[k].Symbol = s /\ rows[k].EarliestVendorDate = d
                /\ \A k \in dated : rows[k].Symbol = s => d <= rows[k].EarliestVendorDate]

\* Lines 98-120: the vendor cache seeded from the universe cache, per symbol
\* the minimum over both files; nothing happens without a universe cache or
\* under force_recheck.
\* Lines 103-113: u and v each reduced to one dated row per symbol, then the
\* rows of both reduced again.
SeedUnion(urows, vrows) ==
    LET u == SortedRows(MinDates(urows))
        v == SortedRows(MinDates(vrows))
    IN  SortedRows(MinDates(u \o v))

SeededVendorCache(ucache, vcache, force_recheck) ==
    IF ~ucache.exists \/ force_recheck THEN vcache
    ELSE IF ~vcache.exists THEN File(SortedRows(MinDates(ucache.rows)))
    ELSE File(SeedUnion(ucache.rows, vcache.rows))

\* merged = symbols_df.merge(earliest_df, on="Symbol", how="left")
MergedRows(universe, earliest_df) ==
    LET e == RowsToMap(earliest_df)
    IN  [k \in DOMAIN universe |->
            Row(universe[k], IF universe[k] \in DOMAIN e THEN e[universe[k]] ELSE NoDate)]

\* Lines 224-263: previous and current rows grouped by Symbol, the date being
\* the minimum of the dates present (missing if there is none).
UnifiedRows(ucache, merged) ==
    LET combo == (IF ucache.exists THEN ucache.rows ELSE <<>>) \o merged
        mins == MinDates(combo)
        syms == {combo[k].Symbol : k \in DOMAIN combo}
    IN  SortedRows([s \in syms |-> IF s \in DOMAIN mins THEN mins[s] ELSE NoDate])

IdleMain ==
    [pc |-> "idle", universe |-> <<>>, force_recheck |-> FALSE,
     batch_size |-> 1, pause |-> 0, max_retries |-> 0,
     validate_cache_sample |-> 0, validate_cache_min |-> 0,
     sample |-> <<>>, reported |-> FALSE]

\* Sampling options of the validation step: validate_cache_sample in percent,
\* validate_cache_min.  They are read at line 141 only, and kept in the frame
\* while the sample is being resolved.
SamplePercents == {5, 50}
SampleMins == {0, 20}

\* Variant: the share of the candidates is rounded down.
SampleSizeFloor(n, percent, minimum) ==
    LET c == (n * percent) \div 100
        k == IF c >= minimum THEN c ELSE minimum
    IN  Min(k, n)

\* k = min(max(ceil(len(candidates) * sample), min), len(candidates))
SampleSize(n, percent, minimum) ==
    LET c == (n * percent + 99) \div 100
        k == IF c >= minimum THEN c ELSE minimum
    IN  Min(k, n)

\* batch_size=min(args.batch_size, 50)
ValidateBatchCap == 50

\* candidates = [s for s in cached_map.keys() if s in universe_syms]
Candidates(vcache, universe) == DOMAIN RowsToMap(vcache.rows) \cap Range(universe)

\* Variant: every freshly resolved symbol that has a cached date is reported.
MismatchRowsAll(fresh, vcache) ==
    LET cached == RowsToMap(vcache.rows)
    IN  {[Symbol |-> s, FreshDate |-> fresh[s], CachedDate |-> cached[s]] :
            s \in {t \in DOMAIN fresh \cap DOMAIN cached : TRUE}}

\* mm: the rows of fresh left-joined with the cache file that have a fresh
\* date and a cached date, the two being different.  (The order of the rows
\* is not kept.)
MismatchRows(fresh, vcache) ==
    LET cached == RowsToMap(vcache.rows)
    IN  {[Symbol |-> s, FreshDate |-> fresh[s], CachedDate |-> cached[s]] :
            s \in {t \in DOMAIN fresh \cap DOMAIN cached : fresh[t] # cached[t]}}

\* Lines 146-165: the report is written only if the resolver returned and its
\* table is not empty; a resolver exception is caught at line 163.
ReportWritten(f) == f.pc = "returned" /\ f.results # EmptyMap

\* Lines 43-120: the symbols are loaded, the vendor cache is seeded.
MainStart ==
    /\ cli.pc = "idle"
    /\ wc.pc = "idle"
    /\ evd.pc = "idle"
    /\ \E universe \in DistinctSeqs(Tickers) \ {<<>>}, force \in BOOLEAN,
          b \in BatchSizes, p \in CachePauses, r \in CacheRetryArgs :
          /\ cli' = [IdleMain EXCEPT !.pc = "validate", !.universe = universe,
                                     !.force_recheck = force, !.batch_size = b,
                                     !.pause = p, !.max_retries = r]
          /\ vfile' = SeededVendorCache(ufile, vfile, force)
    /\ UNCHANGED <<ufile, vprev, vbefore, wc, evd, loop, asked, hist, report, mfile, auxvars>>

\* Lines 122-128 false, or no candidate: no validation.
ValidateSkip ==
    /\ cli.pc = "validate"
    /\ \E skip_validate \in BOOLEAN :
          \/ skip_validate
          \/ ~vfile.exists
          \/ cli.force_recheck
          \/ Candidates(vfile, cli.universe) = {}
    /\ cli' = [cli EXCEPT !.pc = "resolve"]
    /\ UNCHANGED <<vfile, ufile, vprev, vbefore, wc, evd, loop, asked, hist, report, mfile, auxvars>>

\* Lines 129-146: a random sample of the cached symbols of the universe is
\* resolved afresh.
ValidateBegin ==
    /\ cli.pc = "validate"
    /\ vfile.exists
    /\ ~cli.force_recheck
    /\ LET candidates == Candidates(vfile, cli.universe)
       IN  /\ candidates # {}
           /\ \E percent \in SamplePercents, minimum \in SampleMins :
              \E sample \in DistinctSeqs(candidates) :
                 /\ Len(sample) = SampleSize(Cardinality(candidates), percent, minimum)
                 /\ evd' = EvdStart(sample, Min(cli.batch_size, ValidateBatchCap),
                                    cli.pause, cli.max_retries)
                 /\ cli' = [cli EXCEPT !.pc = "validating",
                                       !.validate_cache_sample = percent,
                                       !.validate_cache_min = minimum,
                                       !.sample = sample]
    /\ loop' = NoLoop
    /\ asked' = {}
    /\ hist' = NoHist
    /\ UNCHANGED <<vfile, ufile, vprev, vbefore, wc, report, mfile, auxvars>>

\* Variant: the fresh dates are written into the vendor cache.
ValidateEndApplyingFresh ==
    /\ cli.pc = "validating"
    /\ evd.pc \in {"returned", "raised"}
    /\ cli' = [cli EXCEPT !.pc = "resolve", !.validate_cache_sample = 0,
                          !.validate_cache_min = 0,
                          !.reported = ReportWritten(evd)]
    /\ report' = IF ReportWritten(evd) THEN File(MismatchRows(evd.results, vfile))
                 ELSE report
    /\ vfile' = File(ResultDf(MergedMap(RowsToMap(vfile.rows), evd.results)))
    /\ loop' = NoLoop
    /\ asked' = {}
    /\ hist' = NoHist
    /\ UNCHANGED <<ufile, vprev, vbefore, wc, evd, mfile, auxvars>>

\* Lines 147-165: the fresh dates are compared with the cached ones and the
\* mismatches are written to the report file; an exception of the resolver is
\* caught.  The vendor cache is not written.  (The resolver's frame is kept
\* for reading until the resolution pass starts.)
ValidateEnd ==
    /\ cli.pc = "validating"
    /\ evd.pc \in {"returned", "raised"}
    /\ cli' = [cli EXCEPT !.pc = "resolve", !.validate_cache_sample = 0,
                          !.validate_cache_min = 0,
                          !.reported = ReportWritten(evd)]
    /\ report' = IF ReportWritten(evd) THEN File(MismatchRows(evd.results, vfile))
                 ELSE report
    /\ loop' = NoLoop
    /\ asked' = {}
    /\ hist' = NoHist
    /\ UNCHANGED <<vfile, ufile, vprev, vbefore, wc, evd, mfile, auxvars>>

\* Lines 168-179: the resolution pass.
MainResolve ==
    /\ cli.pc = "resolve"
    /\ CacheEnter(cli.universe, cli.force_recheck, cli.batch_size, cli.pause, cli.max_retries)
    /\ cli' = [cli EXCEPT !.pc = "resolving", !.sample = <<>>]
    /\ UNCHANGED <<vfile, ufile, vprev, report, mfile, auxvars>>

\* Lines 182-184: the universe symbols without a row in earliest_df, in the
\* order of the universe; the report is written only if there is one.
MissingRows(universe, earliest_df) ==
    SelectSeq(universe, LAMBDA s : s \notin DOMAIN RowsToMap(earliest_df))

MissingReport(file, missing) == IF missing # <<>> THEN File(missing) ELSE file

\* Lines 180-267: the outputs are written, the universe cache is updated, the
\* process ends.
MainFinish ==
    /\ cli.pc = "resolving"
    /\ wc.pc = "done"
    /\ mfile' = MissingReport(mfile, MissingRows(cli.universe, wc.ret))
    /\ ufile' = File(UnifiedRows(ufile, MergedRows(cli.universe, wc.ret)))
    /\ vprev' = vfile
    /\ cli' = IdleMain
    /\ wc' = IdleCache
    /\ evd' = IdleFrame
    /\ loop' = NoLoop
    /\ asked' = {}
    /\ hist' = NoHist
    /\ vbefore' = NoFile
    /\ UNCHANGED <<vfile, report, auxvars>>

\* The resolution pass raised: the process ends with the traceback.
MainCrash ==
    /\ cli.pc = "resolving"
    /\ wc.pc = "raised"
    /\ vprev' = vfile
    /\ cli' = IdleMain
    /\ wc' = IdleCache
    /\ evd' = IdleFrame
    /\ loop' = NoLoop
    /\ asked' = {}
    /\ hist' = NoHist
    /\ vbefore' = NoFile
    /\ UNCHANGED <<vfile, ufile, report, mfile, auxvars>>

\* ------------------------------------------------------------- functions applied on their own
\* The aggregation rules of the universe cache update, and the merges of two
\* date tables, applied to tables drawn from bounded sets.

\* A table cell of one of the columns aggregated by first_nonnull
\* (SecurityName, Exchange, CIK, ListedCurrently): a value, or missing.
NumValues == 2
TextValues == 1..NumValues
NoValue == 0
\* Rows per table.
MaxRows == 2

\* One column of a table next to its Symbol column.
TextRows == [Symbol : Tickers, Value : TextValues \cup {NoValue}]

\* Variant: the last value present wins.
RECURSIVE LastNonNull(_)
LastNonNull(series) ==
    IF series = <<>> THEN NoValue
    ELSE IF series[Len(series)] # NoValue THEN series[Len(series)]
    ELSE LastNonNull(SubSeq(series, 1, Len(series) - 1))

\* Lines 246-250: the first value of the series that is present, else missing.
RECURSIVE FirstNonNull(_)
FirstNonNull(series) ==
    IF series = <<>> THEN NoValue
    ELSE IF Head(series) # NoValue THEN Head(series)
    ELSE FirstNonNull(Tail(series))

\* The cells of one symbol's group, in the order of the rows.
RECURSIVE GroupSeries(_, _)
GroupSeries(rows, s) ==
    IF rows = <<>> THEN <<>>
    ELSE IF Head(rows).Symbol = s THEN <<Head(rows).Value>> \o GroupSeries(Tail(rows), s)
    ELSE GroupSeries(Tail(rows), s)

\* Lines 236 and 262, for a column aggregated by first_nonnull: previous rows
\* first, then the rows of this run, grouped by Symbol.
UnifiedColumn(prev, cur) ==
    LET combo == prev \o cur
        syms == {combo[k].Symbol : k \in DOMAIN combo}
    IN  [s \in syms |-> FirstNonNull(GroupSeries(combo, s))]

\* Date tables: a date cell is a date, missing, or unparsable.
DateRows == [Symbol : Tickers, EarliestVendorDate : Dates \cup {NoDate, BadDate}]

\* The k-th smallest element of a set of tickers.
KthTicker(S, k) == CHOOSE s \in S : Cardinality({t \in S : t < s}) = k - 1

\* The universe cache as line 263 writes it: one row per symbol, in ascending
\* order of Symbol (groupby), the cell of a column present or missing.
PrevTextTables ==
    {[k \in 1..Cardinality(DOMAIN m) |->
         [Symbol |-> KthTicker(DOMAIN m, k), Value |-> m[KthTicker(DOMAIN m, k)]]] :
       m \in UNION {[S -> TextValues \cup {NoValue}] : S \in SUBSET Tickers}}

PrevDateTables ==
    {SortedRows(m) : m \in UNION {[S -> Dates \cup {NoDate}] : S \in SUBSET Tickers}}

\* The calls: the first table is a universe cache as the program writes it,
\* the second any table of up to MaxRows rows.
UnifyCalls ==
    [op : {"first_nonnull"}, pc : {"call"},
     prev : PrevTextTables, cur : SeqsUpTo(TextRows, MaxRows)]

MergeCalls ==
    [op : {"merge"}, pc : {"call"},
     a : PrevDateTables, b : SeqsUpTo(DateRows, MaxRows)]

\* The universe cache update applied to one first_nonnull column.
ApplyFirstNonNull ==
    /\ fn.op = "first_nonnull"
    /\ fn.pc = "call"
    /\ fn' = [op |-> "first_nonnull", pc |-> "done",
              prev |-> fn.prev, cur |-> fn.cur,
              unified |-> UnifiedColumn(fn.prev, fn.cur)]
    /\ UNCHANGED <<vfile, ufile, cli, vprev, vbefore, wc, evd, loop, asked, hist,
                   report, mfile, procs>>

\* Both date merges applied to two tables, in both orders, and to one table
\* and itself.
ApplyMerge ==
    /\ fn.op = "merge"
    /\ fn.pc = "call"
    /\ fn' = [op |-> "merge", pc |-> "done", a |-> fn.a, b |-> fn.b,
              seed_ab |-> SeedUnion(fn.a, fn.b),
              seed_ba |-> SeedUnion(fn.b, fn.a),
              seed_aa |-> SeedUnion(fn.a, fn.a),
              unified_ab |-> UnifiedRows(File(fn.a), fn.b),
              unified_ba |-> UnifiedRows(File(fn.b), fn.a),
              unified_aa |-> UnifiedRows(File(fn.a), fn.a)]
    /\ UNCHANGED <<vfile, ufile, cli, vprev, vbefore, wc, evd, loop, asked, hist,
                   report, mfile, procs>>

\* ------------------------------------------------------------- to_yahoo_symbol
\* normalize.py.  A ticker is a sequence of characters of this alphabet:
\* letters of both cases, two of them the letters of a unit and a warrant
\* suffix, and the four marks.
MaxTickerLen == 4
Alphabet == {"a", "A", "U", "W", ".", "/", "^", "-"}
Spellings == SeqsUpTo(Alphabet, MaxTickerLen)

\* str.upper
Upper(s) == [k \in DOMAIN s |-> IF s[k] = "a" THEN "A" ELSE s[k]]

\* str.strip: leading and trailing blanks removed.
RECURSIVE Strip(_)
Strip(s) ==
    IF s = <<>> THEN s
    ELSE IF Head(s) = " " THEN Strip(Tail(s))
    ELSE IF s[Len(s)] = " " THEN Strip(SubSeq(s, 1, Len(s) - 1))
    ELSE s

\* str.replace(old, new) for single characters.
Replace(s, old, new) == [k \in DOMAIN s |-> IF s[k] = old THEN new ELSE s[k]]

\* str.endswith
EndsWith(s, suf) ==
    /\ Len(suf) <= Len(s)
    /\ SubSeq(s, Len(s) - Len(suf) + 1, Len(s)) = suf

\* Line 21: the warrant, rights and unit suffixes.
SlashSuffixes ==
    {<<"/", "W", "S">>, <<"/", "W">>, <<"/", "W", "T">>, <<"/", "R", "T">>, <<"/", "U">>}

\* Lines 12-26.
to_yahoo_symbol(symbol) ==
    LET s == Upper(Strip(symbol))
    IN  IF "^" \in Range(s)
        THEN LET c == CHOOSE k \in DOMAIN s :
                          s[k] = "^" /\ \A j \in 1..(k - 1) : s[j] # "^"
                 base == SubSeq(s, 1, c - 1)
                 suf == Strip(SubSeq(s, c + 1, Len(s)))
             IN  IF suf # <<>> THEN base \o <<"-", "P">> \o suf ELSE base
        ELSE IF \E x \in SlashSuffixes : EndsWith(s, x)
        THEN Replace(Replace(s, "/", "-"), ".", "-")
        ELSE Replace(Replace(s, ".", "-"), "/", "-")

YahooCalls == [op : {"to_yahoo_symbol"}, pc : {"call"}, symbol : Spellings]

\* to_yahoo_symbol applied to a ticker, and again to what it returned.
ApplyToYahoo ==
    /\ fn.op = "to_yahoo_symbol"
    /\ fn.pc = "call"
    /\ fn' = [op |-> "to_yahoo_symbol", pc |-> "done", symbol |-> fn.symbol,
              once |-> to_yahoo_symbol(fn.symbol),
              twice |-> to_yahoo_symbol(to_yahoo_symbol(fn.symbol))]
    /\ UNCHANGED <<vfile, ufile, cli, vprev, vbefore, wc, evd, loop, asked, hist,
                   report, mfile, procs>>

\* ------------------------------------------------------------- the write-back, step by step
\* Line 175 followed through its steps: to_csv opens cache_path for writing,
\* which empties it, writes the rows, and closes it.  The process can be
\* killed before any of these steps.

\* Line 169 as the frame and the resolver's result give it.
PostMergeTable == ResultDf(MergedMap(wc.cached, FetchedDf))

\* Lines 160-175, up to the file being open: it holds the header line only.
CacheWriteOpen ==
    /\ wc.pc = "fetch"
    /\ wc.to_fetch = <<>> \/ evd.pc = "returned"
    /\ vfile' = File(<<>>)
    /\ wc' = [wc EXCEPT !.pc = "writing"]
    /\ UNCHANGED <<vbefore, evd, loop, asked, hist, mainvars>>

\* The next row of result_df reaches the file.
CacheWriteRow ==
    /\ wc.pc = "writing"
    /\ Len(vfile.rows) < Len(PostMergeTable)
    /\ vfile' = File(Append(vfile.rows, PostMergeTable[Len(vfile.rows) + 1]))
    /\ UNCHANGED <<vbefore, wc, evd, loop, asked, hist, mainvars>>

\* Every row is written: the file is closed and line 178 returns.
CacheWriteClose ==
    /\ wc.pc = "writing"
    /\ Len(vfile.rows) = Len(PostMergeTable)
    /\ wc' = [wc EXCEPT !.pc = "done",
                        !.ret = RequestedRows(PostMergeTable, wc.tickers)]
    /\ UNCHANGED <<vfile, vbefore, evd, loop, asked, hist, mainvars>>

\* The process is killed while the call is running; the file stays as it is.
CacheKill ==
    /\ cli.pc = "idle"
    /\ wc.pc \in {"fetch", "writing"}
    /\ wc' = [wc EXCEPT !.pc = "killed"]
    /\ UNCHANGED <<vfile, vbefore, evd, loop, asked, hist, mainvars>>

\* The killed process is gone; the next call starts from the file it left.
CacheRestart ==
    /\ cli.pc = "idle"
    /\ wc.pc = "killed"
    /\ wc' = IdleCache
    /\ evd' = IdleFrame
    /\ loop' = NoLoop
    /\ asked' = {}
    /\ hist' = NoHist
    /\ vbefore' = NoFile
    /\ UNCHANGED <<vfile, mainvars>>

\* ------------------------------------------------------------- two process instances
\* Two processes run earliest_vendor_dates_with_cache on the same cache file.
\* Each has its own locals; the file is what they share.  The resolver call of
\* an instance is taken as one step that gives dates to some of the tickers it
\* was asked for.
NumProcs == 2
Procs == 1..NumProcs

IdleProc ==
    [pc |-> "idle", tickers |-> <<>>, force_recheck |-> FALSE,
     cached |-> EmptyMap, to_fetch |-> <<>>, fetched |-> EmptyMap]

\* Variant: the file is read again just before it is written.
WrittenTableReloading(file, cached, fetched) ==
    ResultDf(MergedMap(MergedMap(LoadCached(file, FALSE), cached), fetched))

\* Lines 160-175: the table written is made of the instance's own cached and
\* fetched maps; the file is not read again.
WrittenTable(file, cached, fetched) == ResultDf(MergedMap(cached, fetched))

\* Lines 137-151 in instance i.
ProcLoad(i) ==
    /\ procs[i].pc = "idle"
    /\ \E ts \in DistinctSeqs(Tickers) \ {<<>>}, force \in BOOLEAN :
          LET cached == LoadCached(vfile, force)
          IN  procs' = [procs EXCEPT ![i] =
                  [pc |-> "loaded", tickers |-> ts, force_recheck |-> force,
                   cached |-> cached, to_fetch |-> ToFetch(ts, force, cached),
                   fetched |-> EmptyMap]]
    /\ UNCHANGED <<vfile, ufile, cli, vprev, vbefore, wc, evd, loop, asked, hist,
                   report, mfile, fn>>

\* Lines 154-158 in instance i: the resolver returns dates for some of to_fetch.
ProcFetch(i) ==
    /\ procs[i].pc = "loaded"
    /\ \E fetched \in Maps :
          /\ DOMAIN fetched \subseteq Range(procs[i].to_fetch)
          /\ procs' = [procs EXCEPT ![i].pc = "fetched", ![i].fetched = fetched]
    /\ UNCHANGED <<vfile, ufile, cli, vprev, vbefore, wc, evd, loop, asked, hist,
                   report, mfile, fn>>

\* Lines 160-175 in instance i.
ProcWrite(i) ==
    /\ procs[i].pc = "fetched"
    /\ vfile' = File(WrittenTable(vfile, procs[i].cached, procs[i].fetched))
    /\ procs' = [procs EXCEPT ![i].pc = "done"]
    /\ UNCHANGED <<ufile, cli, vprev, vbefore, wc, evd, loop, asked, hist,
                   report, mfile, fn>>

\* Instance i ends; another one may be started in its place.
ProcExit(i) ==
    /\ procs[i].pc = "done"
    /\ procs' = [procs EXCEPT ![i] = IdleProc]
    /\ UNCHANGED <<vfile, ufile, cli, vprev, vbefore, wc, evd, loop, asked, hist,
                   report, mfile, fn>>

Init ==
    /\ ufile = NoFile
    /\ cli = IdleMain
    /\ vprev = NoFile
    /\ vbefore = NoFile
    /\ vfile = NoFile
    /\ wc = IdleCache
    /\ evd = IdleFrame
    /\ loop = NoLoop
    /\ asked = {}
    /\ hist = NoHist
    /\ report = NoFile
    /\ mfile = NoFile
    /\ fn = NoCall
    /\ procs = NoProcs

NextResolver == CallResolver \/ ResolverStep \/ ResolverReturn

SpecResolver == Init /\ [][NextResolver]_vars

\* The same calls in a process that keeps running: a request that can be
\* issued is issued and answered (by a frame, an error or a rate limit; a
\* request has a timeout), whatever the answers are.
SpecResolverLive == SpecResolver /\ WF_vars(ResolverStep)

NextCache ==
    CallWithCache \/ ResolverStep \/ CacheMerge \/ CacheRaise \/ CacheReturn

SpecCache == Init /\ [][NextCache]_vars

\* Calls of earliest_vendor_dates_with_cache on a cache file that may get
\* damaged between the calls.
NextLoad ==
    \/ CallWithCache
    \/ ResolverStep
    \/ CacheMerge
    \/ CacheRaise
    \/ CacheReturn
    \/ CorruptCache

SpecLoad == Init /\ [][NextLoad]_vars

\* Runs of main, one after another, on the same two cache files.
Next ==
    \/ MainStart
    \/ ValidateSkip
    \/ ValidateBegin
    \/ ResolverStep
    \/ ValidateEnd
    \/ MainResolve
    \/ CacheMerge
    \/ CacheRaise
    \/ MainFinish
    \/ MainCrash

Spec == Init /\ [][Next]_vars

\* Calls of earliest_vendor_dates_with_cache with the write-back taken step by
\* step, and the process killed at any of them.
NextWrite ==
    \/ CallWithCache
    \/ ResolverStep
    \/ CacheWriteOpen
    \/ CacheWriteRow
    \/ CacheWriteClose
    \/ CacheRaise
    \/ CacheReturn
    \/ CacheKill
    \/ CacheRestart

SpecWrite == Init /\ [][NextWrite]_vars

\* to_yahoo_symbol applied to every ticker of the bounded set.
InitNormalize ==
    /\ ufile = NoFile
    /\ cli = IdleMain
    /\ vprev = NoFile
    /\ vbefore = NoFile
    /\ vfile = NoFile
    /\ wc = IdleCache
    /\ evd = IdleFrame
    /\ loop = NoLoop
    /\ asked = {}
    /\ hist = NoHist
    /\ report = NoFile
    /\ mfile = NoFile
    /\ procs = NoProcs
    /\ fn \in YahooCalls

NextNormalize == ApplyToYahoo

SpecNormalize == InitNormalize /\ [][NextNormalize]_vars

\* Two process instances on one cache file.
InitProcs ==
    /\ ufile = NoFile
    /\ cli = IdleMain
    /\ vprev = NoFile
    /\ vbefore = NoFile
    /\ vfile = NoFile
    /\ wc = IdleCache
    /\ evd = IdleFrame
    /\ loop = NoLoop
    /\ asked = {}
    /\ hist = NoHist
    /\ report = NoFile
    /\ mfile = NoFile
    /\ fn = NoCall
    /\ procs = [i \in Procs |-> IdleProc]

NextProcs ==
    \E i \in Procs : ProcLoad(i) \/ ProcFetch(i) \/ ProcWrite(i) \/ ProcExit(i)

SpecProcs == InitProcs /\ [][NextProcs]_vars

\* The functions applied on their own, to every input of the bounded sets.
InitPure ==
    /\ ufile = NoFile
    /\ cli = IdleMain
    /\ vprev = NoFile
    /\ vbefore = NoFile
    /\ vfile = NoFile
    /\ wc = IdleCache
    /\ evd = IdleFrame
    /\ loop = NoLoop
    /\ asked = {}
    /\ hist = NoHist
    /\ report = NoFile
    /\ mfile = NoFile
    /\ procs = NoProcs
    /\ fn \in UnifyCalls \cup MergeCalls

NextPure == ApplyFirstNonNull \/ ApplyMerge

SpecPure == InitPure /\ [][NextPure]_vars


\* ------------------------------------------------------------- properties
\* The dates a cache file holds, by symbol.
CacheDates(file) == IF file.exists THEN RowsToMap(file.rows) ELSE EmptyMap

\* The date a cache file holds for s, NoDate if none.
DateIn(file, s) ==
    IF s \in DOMAIN CacheDates(file) THEN CacheDates(file)[s] ELSE NoDate

\* The rows are in ascending order of Symbol, one row per symbol.
StrictlySorted(rows) ==
    \A j, k \in DOMAIN rows : j < k => rows[j].Symbol < rows[k].Symbol

\* C1: a symbol that has a date in the vendor cache file when a run of
\* earliest_vendor_dates_with_cache starts still has one when the run has
\* written the file back, so that no later run ever downgrades it to
\* unresolved.
C1_NeverDowngraded ==
    wc.pc = "done" =>
        \A s \in DOMAIN CacheDates(vbefore) : s \in DOMAIN CacheDates(vfile)

\* C2: between the end of one run of main and the end of the next, the date
\* the vendor cache file holds for a symbol differs only if the symbol was
\* among those the resolution pass of that next run sent to the resolver.
C2_ChangedOnlyIfRefetched ==
    [][(cli.pc = "resolving" /\ wc.pc = "done" /\ cli'.pc = "idle" /\ vprev.exists)
        => \A s \in Tickers :
              DateIn(vfile', s) # DateIn(vprev, s) => s \in Range(wc.to_fetch)]_vars

C4_CachedPreserved ==
    (wc.pc = "done" /\ ~wc.force_recheck) =>
        \A s \in DOMAIN CacheDates(vbefore) :
            /\ s \notin Range(wc.to_fetch)
            /\ DateIn(vfile, s) = DateIn(vbefore, s)
            /\ s \in Range(wc.tickers) =>
                  /\ s \in DOMAIN RowsToMap(wc.ret)
                  /\ RowsToMap(wc.ret)[s] = DateIn(vbefore, s)

\* A cached input ticker is kept while another ticker is fetched with a date.
C4_Witness ==
    /\ wc.pc = "done"
    /\ ~wc.force_recheck
    /\ evd.pc = "returned"
    /\ evd.results # EmptyMap
    /\ \E s \in DOMAIN CacheDates(vbefore) \cap Range(wc.tickers) :
          RowsToMap(wc.ret)[s] = DateIn(vbefore, s)

C5_WitnessAllCached ==
    /\ wc.pc = "done"
    /\ ~wc.force_recheck
    /\ wc.tickers # <<>>
    /\ Range(wc.tickers) \subseteq DOMAIN CacheDates(vbefore)
    /\ evd.pc = "idle"

\* C6: with force_recheck on, to_fetch is the whole list of input tickers,
\* whatever the cache file holds, and that list is what the resolver is given.
C6_ForceFetchesAll ==
    (wc.pc \in {"fetch", "done"} /\ wc.force_recheck) =>
        /\ wc.to_fetch = wc.tickers
        /\ wc.tickers # <<>> =>
              /\ evd.pc # "idle"
              /\ Range(evd.tickers) = Range(wc.tickers)

\* A forced run all of whose tickers are in the cache file.
C6_Witness ==
    /\ wc.pc = "fetch"
    /\ wc.force_recheck
    /\ wc.tickers # <<>>
    /\ Range(wc.tickers) \subseteq DOMAIN CacheDates(vbefore)
    /\ evd.pc = "batch"

\* C7: after a run the cache file holds the whole merged map: every symbol
\* of the file as it was before the run and every freshly resolved symbol,
\* one row per symbol in ascending order, each row with a date.
C7_WholeMergedMapWritten ==
    wc.pc = "done" =>
        /\ vfile.exists
        /\ {vfile.rows[k].Symbol : k \in DOMAIN vfile.rows}
              = DOMAIN CacheDates(vbefore) \cup DOMAIN FetchedDf
        /\ StrictlySorted(vfile.rows)
        /\ \A k \in DOMAIN vfile.rows : vfile.rows[k].EarliestVendorDate \in Dates

\* Every request of the current batch loop was answered by a rate limit.
BatchAllRateLimited == loop.kind = "batch" /\ loop.last = "rate_limited"

\* C8 as stated: a batch whose every request is rate limited gets at most
\* max_retries requests.
C8_AtMostMaxRetriesRequests ==
    BatchAllRateLimited => loop.reqs <= evd.max_retries

\* C8 as amended: a batch whose every request is rate limited gets at most
\* max_retries + 1 requests (the first and max_retries retries); after
\* exactly that many the batch counts as failed, nothing is raised, and the
\* single-symbol fallback starts for the whole batch.
C8_AtMostMaxRetriesPlusOne ==
    /\ loop.kind = "batch" => loop.reqs <= evd.max_retries + 1
    /\ BatchAllRateLimited =>
          IF loop.reqs <= evd.max_retries
          THEN evd.pc = "batch" /\ evd.attempt = loop.reqs
          ELSE /\ loop.reqs = evd.max_retries + 1
               /\ evd.pc = "single"
               /\ evd.missing = Batch(evd)
               /\ evd.attempt_i = 0

\* A batch of two was given up after max_retries + 1 >= 2 rate-limited requests.
C8_Witness ==
    /\ BatchAllRateLimited
    /\ evd.max_retries >= 1
    /\ loop.reqs = evd.max_retries + 1
    /\ evd.pc = "single"
    /\ Len(evd.missing) = 2

\* C9: a batch request rate limited on its first k attempts (k <= max_retries)
\* and answered on the next one was preceded by exactly k backoff waits, the
\* j-th (from 0) lasting pause * 2^j.
C9_BackoffWaits ==
    (loop.kind = "batch" /\ loop.last = "frame") =>
        /\ Len(loop.waits) = loop.reqs - 1
        /\ Len(loop.waits) <= evd.max_retries
        /\ \A j \in 0..(Len(loop.waits) - 1) : loop.waits[j + 1] = evd.pause * 2^j

\* pause = 1, rate limits on attempts 0 and 1, an answer on attempt 2: the
\* waits were 1 then 2.
C9_Witness ==
    /\ loop.kind = "batch"
    /\ loop.last = "frame"
    /\ evd.pause = 1
    /\ loop.reqs = 3
    /\ loop.waits = <<1, 2>>

\* C10: a batch request that fails with an error other than a rate limit is
\* not retried: it is followed by no backoff wait and no further batch
\* request, and the single-symbol fallback starts for the batch's symbols.
C10_BatchErrorNotRetried ==
    (loop.kind = "batch" /\ loop.last = "error") =>
        /\ Len(loop.waits) = loop.reqs - 1
        /\ evd.pc = "single"
        /\ evd.missing = Batch(evd)
        /\ evd.attempt_i = 0

\* A batch of two failed with another error on its second request, with
\* retries left.
C10_Witness ==
    /\ loop.kind = "batch"
    /\ loop.last = "error"
    /\ loop.reqs = 2
    /\ evd.max_retries >= 2
    /\ evd.pc = "single"
    /\ Len(evd.missing) = 2

\* The tickers of the batches before the current one.
EarlierTickers == Range(SubSeq(evd.tickers, 1, evd.i - 1))

\* C11: every symbol of a batch that has no date after the batch attempt gets
\* at least one single-symbol request, and the retry counter of its loop
\* starts at zero whatever was spent on the batch or on other symbols.
C11_UnresolvedGetsSingleRequest ==
    /\ (evd.pc = "single" /\ Head(evd.missing) \notin hist.singled) =>
          evd.attempt_i = 0
    /\ hist.skipped = {}

\* The same for the calls that return.
C11_HoldsWhenCallReturns ==
    /\ (evd.pc = "single" /\ Head(evd.missing) \notin hist.singled) =>
          evd.attempt_i = 0
    /\ evd.pc # "raised" => hist.skipped = {}

\* C12: in the single-symbol fallback an error other than a rate limit, or a
\* frame without a usable close, ends the attempts for the symbol: it is not
\* requested again in this call, it is not in the result, and the loop is at
\* another symbol (or past the batch).  (closed also holds the symbols given
\* up on their last rate-limited attempt, for which the same is true.)
C12_SingleErrorEndsSymbol ==
    /\ hist.reasked = {}
    /\ hist.closed \cap DOMAIN evd.results = {}
    /\ evd.pc = "single" =>
          /\ Head(evd.missing) \notin hist.closed
          /\ hist.closed \subseteq
                hist.finished \cup (Range(Batch(evd)) \ Range(evd.missing))
    /\ evd.pc = "batch" => hist.closed \subseteq hist.finished

\* With retries left, one symbol was given up and the loop is at the next one
\* of the same batch.
C12_Witness ==
    /\ evd.pc = "single"
    /\ evd.max_retries >= 1
    /\ hist.closed \cap Range(Batch(evd)) # {}
    /\ Head(evd.missing) \notin hist.closed

\* C13: earliest_vendor_dates returns normally, whatever the vendor does on
\* any batch or single-symbol request and whatever the batch size.
C13_ReturnsNormally == evd.pc # "raised"

\* C15: batches are processed one after another.  When a request for the
\* current batch can be issued, every earlier batch has finished (each of its
\* tickers has a date or its single-symbol loop has ended), one throttle(pause)
\* has followed each of them, no ticker of a later batch has been requested,
\* and no request ever went back to a finished batch.
C15_BatchesStrictlySequential ==
    /\ hist.reopened = {}
    /\ evd.pc \in {"batch", "single"} =>
          /\ hist.finished = EarlierTickers
          /\ EarlierTickers \subseteq DOMAIN evd.results \cup hist.closed
          /\ asked \subseteq EarlierTickers \cup Range(Batch(evd))
          /\ Len(hist.pauses) * evd.batch_size = evd.i - 1
          /\ \A k \in DOMAIN hist.pauses : hist.pauses[k] = Throttle(evd.pause)

\* The second batch is about to be requested after a first batch that needed
\* its single-symbol fallback and a pause of positive length.
C15_Witness ==
    /\ evd.pc = "batch"
    /\ evd.i > 1
    /\ evd.pause > 0
    /\ hist.closed # {}
    /\ hist.pauses = <<evd.pause>>
    /\ asked \cap Range(Batch(evd)) = {}

\* C16: the result of a call that returns has an entry for a ticker exactly
\* if some frame read in this call held a non-missing close for it; its keys
\* are input tickers and every entry has a date.
C16_ResultIsWhatResponsesGave ==
    evd.pc = "returned" =>
        /\ DOMAIN evd.results = hist.gave
        /\ DOMAIN evd.results \subseteq Range(evd.tickers)
        /\ \A t \in DOMAIN evd.results : evd.results[t] \in Dates

\* A call returned with one ticker resolved and another left out.
C16_Witness ==
    /\ evd.pc = "returned"
    /\ DOMAIN evd.results # {}
    /\ Range(evd.tickers) \ DOMAIN evd.results # {}
    /\ hist.closed # {}

\* The file holds a date cell that cannot be parsed.
Corrupt(file) ==
    file.exists /\ \E k \in DOMAIN file.rows : file.rows[k].EarliestVendorDate = BadDate

\* C14: if loading the cache file fails at any point, the run goes on without
\* error with an empty cached map, and every input ticker is in to_fetch.
C14_LoadFailureEmptiesCache ==
    (wc.pc \in {"fetch", "done"} /\ ~wc.force_recheck /\ Corrupt(vbefore)) =>
        /\ wc.cached = EmptyMap
        /\ wc.to_fetch = wc.tickers

\* What the code does instead: the run goes on with the rows read before the
\* failure as cached, and only the other input tickers are fetched.
C14_KeepsRowsBeforeFailure ==
    (wc.pc \in {"fetch", "done"} /\ ~wc.force_recheck /\ Corrupt(vbefore)) =>
        /\ wc.cached = RowsToMap(RowsBeforeFailure(vbefore.rows))
        /\ Range(wc.to_fetch) = Range(wc.tickers) \ DOMAIN wc.cached

\* The validation step of this run drew a sample and has ended.
ValidationRan == cli.pc = "resolve" /\ evd.pc # "idle"

\* C17: the validation step leaves the vendor cache file as it is, whatever
\* the sample and whatever mismatches it finds: no step taken from the start
\* of the validation to its end changes the file.
C17_ValidationLeavesCache ==
    [][cli.pc \in {"validate", "validating"} => vfile' = vfile]_vars

\* The validation found a mismatch, and the cache file still holds the
\* cached date of the mismatching symbol.
C17_Witness ==
    /\ ValidationRan
    /\ cli.reported
    /\ \E r \in report.rows :
          /\ r.FreshDate # r.CachedDate
          /\ DateIn(vfile, r.Symbol) = r.CachedDate

\* C18: whenever the validation step has run (a sample was drawn and resolved
\* afresh), the mismatch report file has been written by the end of the step,
\* also when no sampled symbol could be resolved afresh.
C18_ReportAlwaysWritten ==
    ValidationRan => cli.reported /\ report.exists

\* What the code does: the report is written exactly if the fresh table has
\* a row; it then holds the mismatches and nothing else.
C18_ReportWrittenIfFreshRow ==
    ValidationRan =>
        /\ cli.reported = (evd.pc = "returned" /\ DOMAIN evd.results # {})
        /\ cli.reported => report.exists

\* ceil(n * percent / 100), computed by search.
CeilPercent(n, percent) ==
    CHOOSE c \in 0..(n * percent) :
        /\ c * 100 >= n * percent
        /\ c = 0 \/ (c - 1) * 100 < n * percent

\* min(max(ceil(n * f), m), n), from the statement.
ExpectedSampleSize(n, percent, minimum) ==
    LET c == CeilPercent(n, percent)
        k == IF c >= minimum THEN c ELSE minimum
    IN  IF k <= n THEN k ELSE n

ExpectedMismatches ==
    {s \in Range(cli.sample) :
        /\ s \in DOMAIN evd.results
        /\ DateIn(vfile, s) # NoDate
        /\ evd.results[s] # DateIn(vfile, s)}

\* C20: the mismatches the validation reports are exactly the sampled symbols
\* that have both a cached and a fresh date, the two differing, each with its
\* two dates; when nothing is written there is nothing to report.
C20_MismatchesExact ==
    ValidationRan =>
        IF cli.reported
        THEN /\ {r.Symbol : r \in report.rows} = ExpectedMismatches
             /\ \A r \in report.rows :
                   /\ r.FreshDate = evd.results[r.Symbol]
                   /\ r.CachedDate = DateIn(vfile, r.Symbol)
        ELSE ExpectedMismatches = {}

\* Of two sampled symbols one is reported; the other has equal dates or no
\* fresh date.
C20_Witness ==
    /\ ValidationRan
    /\ cli.reported
    /\ Len(cli.sample) = 2
    /\ Cardinality(report.rows) = 1


\* ------------------------------------------------------------- C21
\* The symbols a missing report lists; an absent report lists none.
Listed(file) == IF file.exists THEN Range(file.rows) ELSE {}

\* A run of main ends normally in this step.
RunEnds == cli.pc = "resolving" /\ wc.pc = "done" /\ cli'.pc = "idle"

\* C21: after every run, whatever runs came before it in the same output
\* directory, the missing report lists exactly the universe symbols of that
\* run that have no row in that run's resolved date table.
C21_MissingReportExact ==
    [][RunEnds =>
          Listed(mfile') = Range(cli.universe) \ DOMAIN RowsToMap(wc.ret)]_vars

\* What the code does: the report is rewritten by the runs that miss a symbol,
\* and left as the earlier run wrote it by the others.
C21_RewrittenOnlyIfAnyMissing ==
    [][RunEnds =>
          LET missing == Range(cli.universe) \ DOMAIN RowsToMap(wc.ret)
          IN  IF missing # {} THEN mfile'.exists /\ Listed(mfile') = missing
              ELSE mfile' = mfile]_vars

\* A run resolved its whole universe and the report of an earlier run stays.
C21_StaleReport ==
    /\ cli.pc = "resolving"
    /\ wc.pc = "done"
    /\ Range(cli.universe) \subseteq DOMAIN RowsToMap(wc.ret)
    /\ mfile.exists


\* ------------------------------------------------------------- C22
\* The rows of a table that hold a value for symbol s.
Holding(rows, s) ==
    {k \in DOMAIN rows : rows[k].Symbol = s /\ rows[k].Value # NoValue}

\* The value of the first of these rows.
FirstHeld(rows, s) ==
    rows[CHOOSE k \in Holding(rows, s) : \A j \in Holding(rows, s) : k <= j].Value

Present(rows, s) ==
    {rows[k].EarliestVendorDate :
        k \in {j \in DOMAIN rows :
                  rows[j].Symbol = s /\ rows[j].EarliestVendorDate \in Dates}}

\* m gives every symbol that has a date in rows its smallest one.
IsMinOf(m, rows) ==
    /\ DOMAIN m = {s \in Tickers : Present(rows, s) # {}}
    /\ \A s \in DOMAIN m :
          /\ m[s] \in Present(rows, s)
          /\ \A d \in Present(rows, s) : m[s] <= d

SymbolsOf(rows) == {rows[k].Symbol : k \in DOMAIN rows}

C24_WritesOwnSnapshot ==
    [][\A i \in Procs :
          (procs[i].pc = "fetched" /\ procs'[i].pc = "done") =>
              /\ vfile'.exists
              /\ RowsToMap(vfile'.rows) = MergedMap(procs[i].cached, procs[i].fetched)]_vars

\* Both instances, neither with force_recheck, have loaded, fetched and
\* written, and a symbol that one of them fetched and wrote is not in the file.
C24_LostUpdate ==
    /\ \A i \in Procs : procs[i].pc = "done" /\ ~procs[i].force_recheck
    /\ \E i \in Procs :
          \E s \in DOMAIN procs[i].fetched : s \notin DOMAIN CacheDates(vfile)


\* ------------------------------------------------------------- C25
\* C25: at every point of a run of earliest_vendor_dates_with_cache, the
\* process having been killed at any step of the write-back included, the
\* cache file holds the complete table from before the run or the complete
\* post-merge table.
C25_FileBeforeOrAfter ==
    wc.pc \in {"fetch", "writing", "killed", "done"} =>
        \/ vfile = vbefore
        \/ vfile = File(PostMergeTable)

\* What the code gives: the file is whole while the run has not opened it, and
\* again once the run has closed it.
C25_WholeOutsideTheWrite ==
    wc.pc \in {"fetch", "done"} =>
        \/ vfile = vbefore
        \/ vfile = File(PostMergeTable)

\* The process was killed with the file open, fewer rows written than the
\* table before the run and than the post-merge table have.
C25_TornFile ==
    /\ wc.pc = "killed"
    /\ vbefore.exists
    /\ Len(vfile.rows) < Len(vbefore.rows)
    /\ Len(vfile.rows) < Len(PostMergeTable)


\* ------------------------------------------------------------- C26
\* C26: to_yahoo_symbol applied twice gives what it gives applied once, for
\* every ticker made of letters, '.', '/', '^' and '-', those with a caret
\* suffix and a '.' or '/' in the base included.
C26_Idempotent ==
    (fn.op = "to_yahoo_symbol" /\ fn.pc = "done") => fn.twice = fn.once

\* What the code gives: the second application changes the result exactly
\* when the first one left a '.', a '/' or a '^' in it, which only the caret
\* branch does.
C26_IdempotentUnlessMarkLeft ==
    (fn.op = "to_yahoo_symbol" /\ fn.pc = "done") =>
        /\ (fn.twice = fn.once) <=> (Range(fn.once) \cap {".", "/", "^"} = {})
        /\ "^" \notin Range(fn.symbol) => fn.twice = fn.once

\* A ticker with a '.' in the base and a caret suffix, such as A.^A: the
\* first application keeps the '.', the second replaces it.
C26_CaretAfterClass ==
    /\ fn.op = "to_yahoo_symbol"
    /\ fn.pc = "done"
    /\ \E k \in DOMAIN fn.symbol :
          /\ fn.symbol[k] = "^"
          /\ k < Len(fn.symbol)
          /\ "." \in Range(SubSeq(fn.symbol, 1, k - 1))
          /\ "^" \notin Range(SubSeq(fn.symbol, 1, k - 1))
    /\ "." \in Range(fn.once)
    /\ "." \notin Range(fn.twice)


BackoffSlept ==
    /\ loop.last = "rate_limited"
    /\ loop.waits # <<>>
    /\ loop.waits[Len(loop.waits)] > 0

\* The retry loop the record is about goes on: its next request is due.
LoopGoesOn ==
    \/ loop.kind = "batch" /\ evd.pc = "batch" /\ evd.attempt = loop.reqs
    \/ loop.kind = "single" /\ evd.pc = "single" /\ evd.attempt_i = loop.reqs

\* C28: every backoff wait, of the batch loop and of the single-symbol
\* loop, is followed by another request for the same batch or symbol; no
\* backoff is slept after the last attempt the retry budget allows.
C28_WaitFollowedByRequest == BackoffSlept => LoopGoesOn

\* What the code gives: the backoff is slept after every rate-limited request,
\* the last one the budget allows included, so one wait per request; the loop
\* goes on after it unless the budget is used up.
C28_WaitAfterEveryRateLimit ==
    loop.last = "rate_limited" =>
        /\ Len(loop.waits) = loop.reqs
        /\ LoopGoesOn <=> loop.reqs <= evd.max_retries

\* Backoffs were slept after the last attempt of a batch loop and of a
\* single-symbol loop.
C28_SleptAfterLastAttempt ==
    /\ BackoffSlept
    /\ ~LoopGoesOn
    /\ loop.kind = "single"
    /\ loop.reqs = evd.max_retries + 1


\* ------------------------------------------------------------- C29
\* C29: in every run of earliest_vendor_dates_with_cache, with
\* force_recheck on or off, no symbol is both loaded from the cache and
\* returned by the resolver, so writing the fetched rows over the cached ones
\* replaces no date loaded in that run: the file written holds every loaded
\* date as it was loaded.
C29_LoadedAndFetchedDisjoint ==
    /\ wc.pc \in {"fetch", "done", "raised"} =>
          DOMAIN wc.cached \cap DOMAIN FetchedDf = {}
    /\ wc.pc = "done" =>
          \A s \in DOMAIN wc.cached : DateIn(vfile, s) = wc.cached[s]

\* A run loaded dates from the file and fetched dates from the vendor.
C29_Witness ==
    /\ wc.pc = "done"
    /\ evd.pc = "returned"
    /\ wc.cached # EmptyMap
    /\ evd.results # EmptyMap

\* A forced run fetched a symbol the file held: nothing was loaded.
C29_WitnessForced ==
    /\ wc.pc = "done"
    /\ wc.force_recheck
    /\ DOMAIN evd.results \cap DOMAIN CacheDates(vbefore) # {}
    /\ wc.cached = EmptyMap

=============================================================================
